---- MODULE Spec2Model ----
(***************************************************************************)
(* Model of the photo album lambdas:                                       *)
(*   backend/lf1_deployment/lambda_function.py  (ingestion, signed PUT)    *)
(*   backend/lf2_deployment/lambda_function.py  (search, PhotoSearchIntent)*)
(*   lf2_deployment/lambda_function.py          (search, SearchIntent)     *)
(*   index.py                                   (combined entry point)     *)
(* Python strings that the code takes apart (object keys, label strings,   *)
(* slot values) are sequences of one-character strings.  External          *)
(* collaborators (S3 head_object, Rekognition, Lex, OpenSearch) are inputs *)
(* of the handler that calls them; a response exists only for a call that  *)
(* the handler really made.                                                *)
(***************************************************************************)
EXTENDS Integers, Sequences, FiniteSets, TLC

VARIABLES
    index,      \* the search index: a set of [id, doc] records
    autoId,     \* number of identifiers the index has generated for POSTs
    awsauth,    \* lf1 module-level AWS4Auth object, or "None"
    target,     \* index.py TARGET_BUCKET_NAME ("" when not configured)
    last,       \* observation of the most recent ingestion run
    repeated,   \* the most recent run repeated the inputs of a successful run
    search      \* observation of the most recent search invocation

vars == <<index, autoId, awsauth, target, last, repeated, search>>

------------------------------------------------------------------------------
\* Bounds of the model.

\* the wall clock (time.time(), time.gmtime()) reads a value in 0..MaxClock
MaxClock == 1
\* the index generates at most MaxAutoIds identifiers (POST /photos/_doc)
MaxAutoIds == 1
\* last-modified instants that S3 may report are 1..MaxModified
MaxModified == 1

------------------------------------------------------------------------------
\* Python string primitives, on sequences of characters.

Range(s) == {s[i] : i \in 1..Len(s)}

\* every ordering of a finite set: what list(set(...)) may produce
ListsOf(S) == {s \in [1..Cardinality(S) -> S] : Range(s) = S}

Whitespace == {" "}

\* str.lower() on one character
LowerChar(c) ==
    CASE c = "A" -> "a"
      [] c = "B" -> "b"
      [] c = "C" -> "c"
      [] c = "D" -> "d"
      [] OTHER -> c

\* str.lower()
Lower(s) == [i \in 1..Len(s) |-> LowerChar(s[i])]

RECURSIVE LStrip(_)
\* str.lstrip()
LStrip(s) ==
    IF s = <<>> THEN <<>>
    ELSE IF Head(s) \in Whitespace THEN LStrip(Tail(s)) ELSE s

RECURSIVE RStrip(_)
\* str.rstrip()
RStrip(s) ==
    IF s = <<>> THEN <<>>
    ELSE IF s[Len(s)] \in Whitespace THEN RStrip(SubSeq(s, 1, Len(s) - 1)) ELSE s

\* str.strip()
Strip(s) == RStrip(LStrip(s))

RECURSIVE SplitFrom(_, _, _)
\* the pieces of s separated by sep, cur being the piece under construction
SplitFrom(s, sep, cur) ==
    IF s = <<>> THEN <<cur>>
    ELSE IF Head(s) = sep THEN <<cur>> \o SplitFrom(Tail(s), sep, <<>>)
    ELSE SplitFrom(Tail(s), sep, Append(cur, Head(s)))

\* str.split(sep): empty pieces are kept
Split(s, sep) == SplitFrom(s, sep, <<>>)

RECURSIVE SplitWsFrom(_, _)
SplitWsFrom(s, cur) ==
    IF s = <<>> THEN (IF cur = <<>> THEN <<>> ELSE <<cur>>)
    ELSE IF Head(s) \in Whitespace
         THEN (IF cur = <<>> THEN <<>> ELSE <<cur>>) \o SplitWsFrom(Tail(s), <<>>)
         ELSE SplitWsFrom(Tail(s), Append(cur, Head(s)))

\* str.split() with no argument: runs of whitespace separate, no empty piece
SplitWs(s) == SplitWsFrom(s, <<>>)

\* str.replace(old, new) for one-character old and new
Replace(s, old, new) == [i \in 1..Len(s) |-> IF s[i] = old THEN new ELSE s[i]]

\* the characters the percent escapes of the modelled keys stand for
HexChar(h1, h2) ==
    CASE <<h1, h2>> = <<"2", "F">> -> "/"
      [] <<h1, h2>> = <<"5", "F">> -> "_"
      [] <<h1, h2>> = <<"2", "0">> -> " "
      [] <<h1, h2>> = <<"2", "B">> -> "+"
      [] OTHER -> "?"

IsEscape(s) ==
    /\ Len(s) >= 3
    /\ s[1] = "%"
    /\ <<s[2], s[3]>> \in {<<"2", "F">>, <<"5", "F">>, <<"2", "0">>, <<"2", "B">>}

RECURSIVE UnquotePlus(_)
\* urllib.parse.unquote_plus: '+' is a space, %XX is the character XX
UnquotePlus(s) ==
    IF s = <<>> THEN <<>>
    ELSE IF IsEscape(s)
         THEN <<HexChar(s[2], s[3])>> \o UnquotePlus(SubSeq(s, 4, Len(s)))
    ELSE IF Head(s) = "+" THEN <<" ">> \o UnquotePlus(Tail(s))
    ELSE <<Head(s)>> \o UnquotePlus(Tail(s))

------------------------------------------------------------------------------
\* Events and collaborator responses.

Buckets == {"b1", "b2"}

\* object keys as the storage notification carries them (percent-encoded)
RawKeys == {<<"f", "/", "t">>, <<"f", "%", "2", "F", "t">>, <<"f", "_", "t">>}

\* a storage notification whose first record is {bucket, key}
S3Event(b, k) ==
    [hasRecords |-> TRUE, wellFormed |-> TRUE, bucket |-> b, key |-> k,
     qsp |-> "absent", q |-> ""]

\* {'Records': []}: the key 'Records' is there, the record is not
EmptyRecordsEvent ==
    [hasRecords |-> TRUE, wellFormed |-> FALSE, bucket |-> "", key |-> <<>>,
     qsp |-> "absent", q |-> ""]

\* {}: neither 'Records' nor 'queryStringParameters'
UnknownEvent ==
    [hasRecords |-> FALSE, wellFormed |-> FALSE, bucket |-> "", key |-> <<>>,
     qsp |-> "absent", q |-> ""]

\* events without a usable first record
MalformedEvents == {EmptyRecordsEvent, UnknownEvent}

S3Events == {S3Event(b, k) : b \in Buckets, k \in RawKeys} \cup MalformedEvents

\* head_object: the call raises, or answers with Metadata and maybe LastModified
HeadNotCalled ==
    [kind |-> "not_called", metaKey |-> "", metaValue |-> <<>>,
     hasLastModified |-> FALSE, lastModified |-> 0]

HeadRaises == [HeadNotCalled EXCEPT !.kind = "raises"]

HeadOk(mk, mv, has, lm) ==
    [kind |-> "ok", metaKey |-> mk, metaValue |-> mv,
     hasLastModified |-> has, lastModified |-> lm]

\* the metadata keys the two ingestion handlers look up
MetaKeyLF1 == "x-amz-meta-customlabels"
MetaKeyIndex == "customlabels"

\* what head_object may do when the lf1 handler calls it
HeadResponses ==
    {HeadRaises, HeadOk("", <<>>, FALSE, 0)}
    \cup {HeadOk("", <<>>, TRUE, lm) : lm \in 1..MaxModified}
    \cup {HeadOk(MetaKeyLF1, <<" ", "B", ",">>, TRUE, lm) : lm \in 1..MaxModified}

\* detect_labels: the call raises, or answers with a list of label names
RekNotCalled == [kind |-> "not_called", names |-> <<>>]
RekRaises == [kind |-> "raises", names |-> <<>>]
RekOk(names) == [kind |-> "ok", names |-> names]

RekResponses == {RekRaises, RekOk(<< <<"A">> >>)}

\* the write to the search index: the call raises, or answers with a status
WriteNotCalled == [kind |-> "not_called", status |-> 0]
WriteRaises == [kind |-> "raises", status |-> 0]
WriteAnswers(st) == [kind |-> "response", status |-> st]

\* what the search index may do with a write at an identifier that is stored
\* already (exists) or not: it answers 200 for a replacement, 201 for a creation
WriteResponses(exists) ==
    {WriteRaises, WriteAnswers(IF exists THEN 200 ELSE 201), WriteAnswers(403),
     WriteAnswers(404)}

\* the statuses with which the search index accepts a document
\* IndexAccepts that takes every answer of the index for an acceptance
IndexAcceptsAnyStatus(w) == w.kind = "response"

IndexAccepts(w) == w.kind = "response" /\ w.status \in {200, 201}

------------------------------------------------------------------------------
\* The search index (collaborator): upsert at an identifier, append with a
\* generated identifier.

NoDoc == [objectKey |-> <<>>, bucket |-> "", createdTimestamp |-> <<>>, labels |-> <<>>]

DocsAt(idx, id) == {r.doc : r \in {x \in idx : x.id = id}}

\* IndexPut that adds the document and replaces nothing, as a POST does
IndexPutAppend(idx, id, doc) == idx \cup {[id |-> id, doc |-> doc]}

\* PUT /photos/_doc/<id>: create, or replace what is stored at id
IndexPut(idx, id, doc) == {r \in idx : r.id # id} \cup {[id |-> id, doc |-> doc]}

\* POST /photos/_doc: the index generates a fresh identifier
IndexPost(idx, n, doc) == idx \cup {[id |-> <<"auto", n>>, doc |-> doc]}

------------------------------------------------------------------------------
\* backend/lf1_deployment/lambda_function.py

\* time.time(): a float
TimeTime(clock) == [type |-> "float", t |-> clock]

\* the LastModified datetime of a head_object answer
DateTime(t) == [type |-> "datetime", t |-> t]

\* only a datetime has the method isoformat
HasIsoformat(v) == v.type = "datetime"

Isoformat(v) == <<"T", v.t>>

\* CustomLabels without the call of lower()
CustomLabelsKeepCase(raw) ==
    IF raw = <<>> THEN <<>>
    ELSE LET kept == SelectSeq(Split(raw, ","), LAMBDA p : Strip(p) # <<>>)
         IN  [i \in 1..Len(kept) |-> Strip(kept[i])]

\* [label.strip().lower() for label in raw_labels.split(',') if label.strip()]
CustomLabels(raw) ==
    IF raw = <<>> THEN <<>>
    ELSE LET kept == SelectSeq(Split(raw, ","), LAMBDA p : Strip(p) # <<>>)
         IN  [i \in 1..Len(kept) |-> Lower(Strip(kept[i]))]

\* metadata.get('x-amz-meta-customlabels', '')
RawLabels(head) == IF head.metaKey = MetaKeyLF1 THEN head.metaValue ELSE <<>>

\* [label['Name'].lower() for label in rekognition_response['Labels']]
RekognitionLabels(names) == [i \in 1..Len(names) |-> Lower(names[i])]

\* set(rekognition_labels + custom_labels)
AllLabels(rekLabels, customLabels) == Range(rekLabels \o customLabels)

\* step 2 of the handler: the try block around head_object and its except
\* block, which itself calls isoformat on time.time()
MetadataStep(head, clock) ==
    LET stamp == IF head.hasLastModified THEN DateTime(head.lastModified)
                 ELSE TimeTime(clock)
        tryOk == head.kind = "ok" /\ HasIsoformat(stamp)
    IN  IF tryOk
        THEN [raised |-> FALSE, custom |-> CustomLabels(RawLabels(head)),
              timestamp |-> Isoformat(stamp)]
        ELSE IF HasIsoformat(TimeTime(clock))
             THEN [raised |-> FALSE,
                   custom |-> IF head.kind = "ok" THEN CustomLabels(RawLabels(head))
                              ELSE <<>>,
                   timestamp |-> Isoformat(TimeTime(clock))]
             ELSE [raised |-> TRUE, custom |-> <<>>, timestamp |-> <<>>]

\* RekognitionStep with an except block that goes on without labels
RekognitionStepSwallowed(rek) ==
    IF rek.kind = "ok"
    THEN [failed |-> FALSE, labels |-> RekognitionLabels(rek.names)]
    ELSE [failed |-> FALSE, labels |-> <<>>]

\* step 3: detect_labels inside try; its except block returns 500
RekognitionStep(rek) ==
    IF rek.kind = "ok"
    THEN [failed |-> FALSE, labels |-> RekognitionLabels(rek.names)]
    ELSE [failed |-> TRUE, labels |-> <<>>]

\* key.replace("/", "_")
DocumentId(key) == Replace(key, "/", "_")

Document(key, bucket, timestamp, labels) ==
    [objectKey |-> key, bucket |-> bucket, createdTimestamp |-> timestamp,
     labels |-> labels]

\* the status code the handler returns after the PUT was answered or raised
PutStatus(put) ==
    IF put.kind = "raises" THEN 500
    ELSE IF put.status \in {200, 201} THEN 200 ELSE put.status

Outcome(ret, st, msg, hc, rc, wc, wr, id, doc) ==
    [returned |-> ret, statusCode |-> st, message |-> msg, headCalls |-> hc,
     rekCalls |-> rc, writeCalls |-> wc, written |-> wr, docId |-> id, doc |-> doc]

\* one run of lambda_handler; order is the order list(set(...)) gives the labels
LF1Run(event, head, rek, put, order, auth, clock) ==
    IF ~event.wellFormed
    THEN Outcome(TRUE, 400, "Invalid event", 0, 0, 0, FALSE, <<>>, NoDoc)
    ELSE
    LET key == UnquotePlus(event.key)
        meta == MetadataStep(head, clock)
        rk == RekognitionStep(rek)
        doc == Document(key, event.bucket, meta.timestamp, order)
        id == DocumentId(key)
    IN  IF meta.raised
        THEN Outcome(FALSE, 0, "AttributeError", 1, 0, 0, FALSE, <<>>, NoDoc)
        ELSE IF rk.failed
        THEN Outcome(TRUE, 500, "Rekognition failed", 1, 1, 0, FALSE, <<>>, NoDoc)
        ELSE IF auth = "None"
        THEN Outcome(TRUE, 500, "Authentication error", 1, 1, 0, FALSE, id, doc)
        ELSE IF put.kind = "raises"
        THEN Outcome(TRUE, 500, "OpenSearch indexing failed", 1, 1, 1, FALSE, id, doc)
        ELSE IF IndexAccepts(put)
        THEN Outcome(TRUE, PutStatus(put), "Photo indexed successfully", 1, 1, 1,
                     TRUE, id, doc)
        ELSE Outcome(TRUE, PutStatus(put), "Failed to index photo in OpenSearch",
                     1, 1, 1, FALSE, id, doc)

\* the orders in which the run may list the merged labels (all_labels is
\* built only when steps 1 to 3 went through)
LF1Orders(event, head, rek, clock) ==
    LET meta == MetadataStep(head, clock)
        rk == RekognitionStep(rek)
    IN  IF event.wellFormed /\ ~meta.raised /\ ~rk.failed
        THEN ListsOf(AllLabels(rk.labels, meta.custom))
        ELSE {<<>>}

Observation(h, event, head, rek, put, run) ==
    [handler |-> h, event |-> event, head |-> head, rek |-> rek, put |-> put,
     run |-> run]

NoRun ==
    Observation("none", UnknownEvent, HeadNotCalled, RekNotCalled, WriteNotCalled,
                Outcome(FALSE, 0, "", 0, 0, 0, FALSE, <<>>, NoDoc))

\* the same handler ran on the same notification, and the metadata
\* collaborator and the classifier answered the same
SameInputs(o1, o2) ==
    /\ o1.handler = o2.handler
    /\ o1.event = o2.event
    /\ o1.head = o2.head
    /\ o1.rek = o2.rek

\* backend/lf1_deployment lambda_handler(event, context)
LF1LambdaHandler(event, head, rek, put, order, clock) ==
    LET run == LF1Run(event, head, rek, put, order, awsauth, clock)
        obs == Observation("lf1", event, head, rek, put, run)
    IN  /\ index' = IF run.written THEN IndexPut(index, run.docId, run.doc) ELSE index
        /\ last' = obs
        /\ repeated' = (SameInputs(last, obs) /\ last.run.written /\ run.written)
        /\ UNCHANGED <<autoId, awsauth, target, search>>

------------------------------------------------------------------------------
\* Search requests and the answers of the intent extractor and of the index.

\* API Gateway events: queryStringParameters is null, is {} or holds q
ApiEvent(qsp, q) ==
    [hasRecords |-> FALSE, wellFormed |-> FALSE, bucket |-> "", key |-> <<>>,
     qsp |-> qsp, q |-> q]

Utterances == {<<"c", "a", "t">>}

ApiEvents ==
    {ApiEvent("null", <<>>), ApiEvent("empty", <<>>)}
    \cup {ApiEvent("q", u) : u \in Utterances}

\* recognize_text: the call raises, or answers with sessionState.intent, of
\* which the model keeps the name and one slot.  slot is "absent" (no such
\* key), "null" (the slot is None), "noValueKey" (a dict without 'value'),
\* "nullValue" ('value' is None) or "value"; an empty interpreted or original
\* stands for a missing or empty interpretedValue, originalValue.
LexNotCalled ==
    [kind |-> "not_called", intent |-> "None", slotName |-> "", slot |-> "absent",
     interpreted |-> <<>>, original |-> <<>>]

LexRaises == [LexNotCalled EXCEPT !.kind = "raises"]

LexOk(intent, name, slot, interp, orig) ==
    [kind |-> "ok", intent |-> intent, slotName |-> name, slot |-> slot,
     interpreted |-> interp, original |-> orig]

Intents == {"PhotoSearchIntent", "SearchIntent", "FallbackIntent"}
SlotNames == {"Keywords", "SearchTerm", "keywords"}

LexResponses ==
    {LexRaises}
    \cup {LexOk(i, "", "absent", <<>>, <<>>) : i \in Intents \cup {"None"}}
    \cup {LexOk(i, n, k, <<>>, <<>>) :
            i \in Intents, n \in SlotNames, k \in {"null", "noValueKey", "nullValue"}}
    \cup {LexOk(i, n, "value", iv, ov) :
            i \in Intents, n \in SlotNames,
            iv \in {<<>>, <<"A", " ", "b">>}, ov \in {<<>>, <<" ">>, <<"C">>}}

\* the number of hits a search answer carries is at most MaxHits
MaxHits == 3

\* the _source of a hit
HitDocs ==
    {Document(<<"f", "_", "t">>, b, <<>>, l) :
        b \in Buckets, l \in {<<>>, << <<"a">> >>}}

HitSeqs == UNION {[1..n -> HitDocs] : n \in 0..MaxHits}

\* the search call raises, or the index answers with a status and, when it
\* accepted the query, with hits
EsNotCalled == [kind |-> "not_called", status |-> 0, hasHits |-> FALSE, hits |-> <<>>]
EsRaises == [EsNotCalled EXCEPT !.kind = "raises"]
EsRejects(st) == [kind |-> "response", status |-> st, hasHits |-> FALSE, hits |-> <<>>]
EsHits(hits) == [kind |-> "response", status |-> 200, hasHits |-> TRUE, hits |-> hits]

EsResponses == {EsRaises, EsRejects(403), EsRejects(500)} \cup {EsHits(h) : h \in HitSeqs}

\* what a search invocation did and returned
SearchOutcome(ret, st, kind, body, cors, lc, text, ec, query) ==
    [returned |-> ret, statusCode |-> st, bodyKind |-> kind, body |-> body,
     cors |-> cors, lexCalls |-> lc, lexText |-> text, esCalls |-> ec,
     esQuery |-> query]

SearchObservation(h, event, lex, es, run) ==
    [handler |-> h, event |-> event, lex |-> lex, es |-> es, run |-> run]

NoSearch ==
    SearchObservation("none", UnknownEvent, LexNotCalled, EsNotCalled,
                      SearchOutcome(FALSE, 0, "none", <<>>, FALSE, 0, <<>>, 0, <<>>))

------------------------------------------------------------------------------
\* index.py

\* time.strftime("%Y-%m-%dT%H:%M:%S", time.gmtime())
Strftime(clock) == <<"S", clock>>

\* meta.get('Metadata', {}).get('customlabels', '')
IndexPyCustom(head) == IF head.metaKey = MetaKeyIndex THEN head.metaValue ELSE <<>>

\* labels = [l['Name'] ...]; if custom: labels.extend([x.strip() for x in custom.split(',')])
IndexPyLabels(names, custom) ==
    IF custom = <<>> THEN names
    ELSE LET parts == Split(custom, ",")
         IN  names \o [i \in 1..Len(parts) |-> Strip(parts[i])]

\* handle_indexing(event): everything is inside one try, whose except block
\* returns 500; the answer of the POST is not looked at
HandleIndexingRun(event, rek, head, post, clock) ==
    IF ~event.wellFormed
    THEN Outcome(TRUE, 500, "KeyError", 0, 0, 0, FALSE, <<>>, NoDoc)
    ELSE
    LET key == UnquotePlus(event.key)
        doc == Document(key, event.bucket, Strftime(clock),
                        IndexPyLabels(rek.names, IndexPyCustom(head)))
    IN  IF rek.kind # "ok"
        THEN Outcome(TRUE, 500, "detect_labels", 0, 1, 0, FALSE, <<>>, NoDoc)
        ELSE IF head.kind # "ok"
        THEN Outcome(TRUE, 500, "head_object", 1, 1, 0, FALSE, <<>>, NoDoc)
        ELSE IF post.kind = "raises"
        THEN Outcome(TRUE, 500, "request", 1, 1, 1, FALSE, <<>>, doc)
        ELSE Outcome(TRUE, 200, "Indexed", 1, 1, 1, IndexAccepts(post), <<>>, doc)

\* f"https://{bucket}.s3.amazonaws.com/{key}"
ImgUrl(bucket, key) == <<"https://", bucket, ".s3.amazonaws.com/">> \o key

RECURSIVE AssembleFrom(_, _, _, _)
\* the loop over data['hits']['hits'], results and unique_urls being what the
\* loop has built so far
AssembleFrom(hits, allow, results, uniqueUrls) ==
    IF hits = <<>> THEN results
    ELSE LET src == Head(hits)
             imgUrl == ImgUrl(src.bucket, src.objectKey)
         IN  IF allow # "" /\ src.bucket # allow
             THEN AssembleFrom(Tail(hits), allow, results, uniqueUrls)
             ELSE IF imgUrl \in uniqueUrls
             THEN AssembleFrom(Tail(hits), allow, results, uniqueUrls)
             ELSE AssembleFrom(Tail(hits), allow,
                               Append(results, [url |-> imgUrl, labels |-> src.labels]),
                               uniqueUrls \cup {imgUrl})

\* Assemble without the filter on TARGET_BUCKET_NAME
AssembleUnfiltered(hits, allow) == AssembleFrom(hits, "", <<>>, {})

\* results of handle_search for the hits of the answer
Assemble(hits, allow) == AssembleFrom(hits, allow, <<>>, {})

\* event.get('queryStringParameters', {}).get('q', 'dogs')
DefaultQuery == <<"d", "o", "g", "s">>

\* the keyword handle_search looks for: the slot's originalValue, else q
IndexPyKeyword(q, lex) ==
    IF lex.slotName = "keywords" /\ lex.slot = "value"
    THEN lex.original ELSE q

\* slots['keywords']['value']['originalValue'] raises KeyError when the value
\* is there (truthy) and has no originalValue
IndexPyKeywordRaises(lex) ==
    /\ lex.slotName = "keywords"
    /\ lex.slot = "value"
    /\ lex.original = <<>>

\* handle_search(event): one try, whose except block returns 500
HandleSearchRun(event, lex, es, allow) ==
    LET q == IF event.qsp = "q" THEN event.q ELSE DefaultQuery
        keyword == IndexPyKeyword(q, lex)
        error(lc, ec, query) ==
            SearchOutcome(TRUE, 500, "error", <<>>, TRUE, lc, IF lc = 1 THEN q ELSE <<>>,
                          ec, query)
    IN  IF event.qsp = "null" THEN error(0, 0, <<>>)
        ELSE IF lex.kind # "ok" THEN error(1, 0, <<>>)
        ELSE IF IndexPyKeywordRaises(lex) THEN error(1, 0, <<>>)
        ELSE IF es.kind # "response" THEN error(1, 1, keyword)
        ELSE SearchOutcome(TRUE, 200, "list",
                           IF es.hasHits THEN Assemble(es.hits, allow) ELSE <<>>,
                           TRUE, 1, q, 1, keyword)

\* the router of lambda_handler
Route(event) ==
    IF event.hasRecords THEN "indexing"
    ELSE IF event.qsp # "absent" THEN "search"
    ELSE "unknown"

\* index.py lambda_handler(event, context)
IndexPyLambdaHandler(event, rek, head, post, clock, lex, es) ==
    LET route == Route(event)
        run == IF route = "indexing" THEN HandleIndexingRun(event, rek, head, post, clock)
               ELSE Outcome(TRUE, 400, "Unknown Event Type", 0, 0, 0, FALSE, <<>>, NoDoc)
        obs == Observation("index.py", event, head, rek, post, run)
        found == HandleSearchRun(event, lex, es, target)
    IN  /\ run.written => autoId < MaxAutoIds
        /\ index' = IF run.written THEN IndexPost(index, autoId, run.doc) ELSE index
        /\ autoId' = IF run.written THEN autoId + 1 ELSE autoId
        /\ last' = IF route = "search" THEN last ELSE obs
        /\ repeated' = IF route = "search" THEN repeated
                       ELSE SameInputs(last, obs) /\ last.run.written /\ run.written
        /\ search' = IF route = "search"
                     THEN SearchObservation("index.py", event, lex, es, found)
                     ELSE search
        /\ UNCHANGED <<awsauth, target>>

IndexPyReks(event) ==
    IF HandleIndexingRun(event, RekNotCalled, HeadNotCalled, WriteNotCalled, 0).rekCalls = 1
    THEN RekResponses ELSE {RekNotCalled}

IndexPyHeads(event, rek) ==
    IF HandleIndexingRun(event, rek, HeadNotCalled, WriteNotCalled, 0).headCalls = 1
    THEN {HeadRaises, HeadOk("", <<>>, TRUE, 1), HeadOk(MetaKeyIndex, <<" ", "B", ",">>, TRUE, 1)}
    ELSE {HeadNotCalled}

IndexPyPosts(event, rek, head) ==
    IF HandleIndexingRun(event, rek, head, WriteRaises, 0).writeCalls = 1
    THEN {WriteRaises, WriteAnswers(201), WriteAnswers(403)} ELSE {WriteNotCalled}

\* the notifications the combined entry point is run on
IndexPyEvents == {S3Event("b1", <<"f", "_", "t">>), EmptyRecordsEvent, UnknownEvent}

------------------------------------------------------------------------------
\* backend/lf2_deployment/lambda_function.py and lf2_deployment/lambda_function.py

\* slots.get(slot_name) is there and truthy
SlotFilled(lex, name) == lex.slotName = name /\ lex.slot \notin {"absent", "null"}

\* [k.strip() for k in keyword_string.split() if k.strip()]
Tokens(keywordString) ==
    LET kept == SelectSeq(SplitWs(keywordString), LAMBDA k : Strip(k) # <<>>)
    IN  [i \in 1..Len(kept) |-> Strip(kept[i])]

\* BackendKeywords without the test of the intent name
BackendKeywordsAnyIntent(lex) ==
    IF lex.kind # "ok" THEN <<>>
    ELSE IF ~SlotFilled(lex, "Keywords") THEN <<>>
    ELSE IF lex.slot = "noValueKey" THEN <<>>
    ELSE IF lex.slot = "value" /\ lex.interpreted # <<>> THEN Tokens(Lower(lex.interpreted))
    ELSE IF lex.slot = "value" /\ lex.original # <<>> THEN Tokens(Lower(lex.original))
    ELSE Tokens(<<>>)

\* backend/lf2_deployment get_keywords_from_lex: intent PhotoSearchIntent,
\* slot Keywords, interpretedValue before originalValue
BackendKeywords(lex) ==
    IF lex.kind # "ok" THEN <<>>
    ELSE IF lex.intent # "PhotoSearchIntent" THEN <<>>
    ELSE IF ~SlotFilled(lex, "Keywords") THEN <<>>
    ELSE IF lex.slot = "noValueKey" THEN <<>>
    ELSE IF lex.slot = "value" /\ lex.interpreted # <<>> THEN Tokens(Lower(lex.interpreted))
    ELSE IF lex.slot = "value" /\ lex.original # <<>> THEN Tokens(Lower(lex.original))
    ELSE Tokens(<<>>)

\* lf2_deployment get_keywords_from_lex: intent SearchIntent, slot SearchTerm,
\* interpretedValue only; with another intent the function returns None,
\* which the handler's "if keywords" takes like the empty list
RootKeywords(lex) ==
    IF lex.kind # "ok" THEN <<>>
    ELSE IF lex.intent # "SearchIntent" THEN <<>>
    ELSE IF ~SlotFilled(lex, "SearchTerm") THEN <<>>
    ELSE IF lex.slot = "noValueKey" THEN <<>>
    ELSE IF lex.slot = "value" /\ lex.interpreted # <<>> THEN Tokens(Lower(lex.interpreted))
    ELSE <<>>

RECURSIVE Join(_)
\* " ".join(keywords)
Join(keywords) ==
    IF keywords = <<>> THEN <<>>
    ELSE IF Len(keywords) = 1 THEN keywords[1]
    ELSE keywords[1] \o <<" ">> \o Join(Tail(keywords))

\* raise_for_status() raises for the statuses from 400 on
RaisesForStatus(es) == es.status >= 400

\* SearchElasticsearch without the except block
SearchElasticsearchUncaught(keywords, es) ==
    IF keywords = <<>> THEN [raised |-> FALSE, keys |-> <<>>]
    ELSE IF es.kind # "response" THEN [raised |-> TRUE, keys |-> <<>>]
    ELSE IF RaisesForStatus(es) THEN [raised |-> TRUE, keys |-> <<>>]
    ELSE [raised |-> FALSE, keys |-> [i \in 1..Len(es.hits) |-> es.hits[i].objectKey]]

\* search_elasticsearch(keywords): the except block for RequestException
\* returns []
SearchElasticsearch(keywords, es) ==
    IF keywords = <<>> THEN [raised |-> FALSE, keys |-> <<>>]
    ELSE IF es.kind # "response" THEN [raised |-> FALSE, keys |-> <<>>]
    ELSE IF RaisesForStatus(es) THEN [raised |-> FALSE, keys |-> <<>>]
    ELSE [raised |-> FALSE, keys |-> [i \in 1..Len(es.hits) |-> es.hits[i].objectKey]]

\* lambda_handler(event, context) of either lf2 module, keywords being what
\* its get_keywords_from_lex returns
LF2Run(event, keywords, es) ==
    IF event.qsp # "q"
    THEN SearchOutcome(TRUE, 200, "list", <<>>, TRUE, 0, <<>>, 0, <<>>)
    ELSE IF keywords = <<>>
    THEN SearchOutcome(TRUE, 200, "list", <<>>, TRUE, 1, event.q, 0, <<>>)
    ELSE LET found == SearchElasticsearch(keywords, es)
         IN  IF found.raised
             THEN SearchOutcome(FALSE, 0, "none", <<>>, FALSE, 1, event.q, 1, Join(keywords))
             ELSE SearchOutcome(TRUE, 200, "list", found.keys, TRUE, 1, event.q, 1,
                                Join(keywords))

\* backend/lf2_deployment lambda_handler
BackendLF2LambdaHandler(event, lex, es) ==
    /\ search' = SearchObservation("backend/lf2", event, lex, es,
                                   LF2Run(event, BackendKeywords(lex), es))
    /\ UNCHANGED <<index, autoId, awsauth, target, last, repeated>>

\* lf2_deployment lambda_handler
RootLF2LambdaHandler(event, lex, es) ==
    /\ search' = SearchObservation("lf2", event, lex, es,
                                   LF2Run(event, RootKeywords(lex), es))
    /\ UNCHANGED <<index, autoId, awsauth, target, last, repeated>>

\* the answers a search invocation can meet; the search handlers keep nothing
\* from one invocation to the next, so each is modelled from the initial state
LexFor(called) == IF called THEN LexResponses ELSE {LexNotCalled}
EsFor(called) == IF called THEN EsResponses ELSE {EsNotCalled}

SearchEvents == ApiEvents \cup {UnknownEvent}

SearchBackendLF2 ==
    /\ search.handler = "none"
    /\ \E event \in SearchEvents :
      \E lex \in LexFor(LF2Run(event, <<>>, EsNotCalled).lexCalls = 1) :
        \E es \in EsFor(LF2Run(event, BackendKeywords(lex), EsRaises).esCalls = 1) :
          BackendLF2LambdaHandler(event, lex, es)

SearchRootLF2 ==
    /\ search.handler = "none"
    /\ \E event \in SearchEvents :
      \E lex \in LexFor(LF2Run(event, <<>>, EsNotCalled).lexCalls = 1) :
        \E es \in EsFor(LF2Run(event, RootKeywords(lex), EsRaises).esCalls = 1) :
          RootLF2LambdaHandler(event, lex, es)

SearchIndexPy ==
    /\ search.handler = "none"
    /\ \E event \in SearchEvents :
      \E lex \in LexFor(HandleSearchRun(event, LexRaises, EsNotCalled, target).lexCalls = 1
                        /\ Route(event) = "search") :
        \E es \in EsFor(HandleSearchRun(event, lex, EsRaises, target).esCalls = 1
                        /\ Route(event) = "search") :
          IndexPyLambdaHandler(event, RekNotCalled, HeadNotCalled, WriteNotCalled, 0,
                               lex, es)

------------------------------------------------------------------------------
\* The answers a run of the lf1 handler can meet: a collaborator answers only
\* when the handler calls it.

LF1Heads(event) ==
    IF LF1Run(event, HeadNotCalled, RekNotCalled, WriteNotCalled, <<>>, awsauth, 0).headCalls = 1
    THEN HeadResponses ELSE {HeadNotCalled}

LF1Reks(event, head) ==
    IF LF1Run(event, head, RekNotCalled, WriteNotCalled, <<>>, awsauth, 0).rekCalls = 1
    THEN RekResponses ELSE {RekNotCalled}

LF1Puts(event, head, rek) ==
    LET run == LF1Run(event, head, rek, WriteRaises, <<>>, awsauth, 0)
    IN  IF run.writeCalls = 1
        THEN WriteResponses(DocsAt(index, run.docId) # {}) ELSE {WriteNotCalled}

Init ==
    /\ index = {}
    /\ autoId = 0
    /\ awsauth \in {"AWS4Auth", "None"}
    /\ target = ""
    /\ last = NoRun
    /\ repeated = FALSE
    /\ search = NoSearch

\* the readings of the clock that can reach a document of the lf1 handler:
\* time.time() is read, and its value is used only through isoformat
LF1Clocks == IF HasIsoformat(TimeTime(0)) THEN 0..MaxClock ELSE {0}

\* a run of the lf1 handler on one of the events
IngestLF1On(events) ==
    \E event \in events :
      \E head \in LF1Heads(event) :
        \E rek \in LF1Reks(event, head) :
          \E put \in LF1Puts(event, head, rek) :
            \E clock \in LF1Clocks :
              \E order \in LF1Orders(event, head, rek, clock) :
                LF1LambdaHandler(event, head, rek, put, order, clock)

IngestLF1 == IngestLF1On(S3Events)

Next == IngestLF1

Spec == Init /\ [][Next]_vars

\* The search handlers: they read the index through the answers of the
\* search call and write nothing.
InitSearch ==
    /\ index = {}
    /\ autoId = 0
    /\ awsauth = "AWS4Auth"
    /\ target \in {"", "b1"}
    /\ last = NoRun
    /\ repeated = FALSE
    /\ search = NoSearch

NextSearch == SearchBackendLF2 \/ SearchRootLF2 \/ SearchIndexPy

SpecSearch == InitSearch /\ [][NextSearch]_vars

\* Both ingestion handlers, deployed on one index and run on the
\* notifications of one object.
InitIngest ==
    /\ index = {}
    /\ autoId = 0
    /\ awsauth = "AWS4Auth"
    /\ target = ""
    /\ last = NoRun
    /\ repeated = FALSE
    /\ search = NoSearch

IngestLF1One == IngestLF1On(IndexPyEvents)

IngestIndexPy ==
    \E event \in IndexPyEvents :
      \E rek \in IndexPyReks(event) :
        \E head \in IndexPyHeads(event, rek) :
          \E post \in IndexPyPosts(event, rek, head) :
            \E clock \in 0..MaxClock :
              IndexPyLambdaHandler(event, rek, head, post, clock, LexNotCalled,
                                   EsNotCalled)

NextIngest == IngestLF1One \/ IngestIndexPy

SpecIngest == InitIngest /\ [][NextIngest]_vars

------------------------------------------------------------------------------
\* The label merge of the lf1 handler on every custom-label string and every
\* list of classifier names within the bounds: one run per choice.

\* custom-label strings have at most MaxRawLen characters
MaxRawLen == 3
\* the classifier answers with at most MaxNames labels
MaxNames == 2

LabelChars == {"a", "B", " ", ","}

RawStrings == UNION {[1..n -> LabelChars] : n \in 0..MaxRawLen}

\* label names of the classifier: never empty
ClassifierNames == {<<"A">>, <<"b">>, <<"a", "B">>}

NameLists == UNION {[1..n -> ClassifierNames] : n \in 0..MaxNames}

InitMerge ==
    /\ index = {}
    /\ autoId = 0
    /\ awsauth = "AWS4Auth"
    /\ target = ""
    /\ \E raw \in RawStrings, names \in NameLists :
          last = Observation("pending", S3Event("b1", <<"f", "_", "t">>),
                             HeadOk(MetaKeyLF1, raw, TRUE, 1), RekOk(names),
                             WriteNotCalled, NoRun.run)
    /\ repeated = FALSE
    /\ search = NoSearch

MergeLF1 ==
    /\ last.handler = "pending"
    /\ \E put \in {w \in LF1Puts(last.event, last.head, last.rek) : IndexAccepts(w)} :
         \E order \in LF1Orders(last.event, last.head, last.rek, 0) :
            LF1LambdaHandler(last.event, last.head, last.rek, put, order, 0)

NextMerge == MergeLF1

SpecMerge == InitMerge /\ [][NextMerge]_vars

------------------------------------------------------------------------------
\* Properties of the ingestion handlers, checked under Spec.

\* the records the index holds at an identifier
RecordsAt(idx, id) == {r \in idx : r.id = id}

\* two documents with the same content, the labels taken as a set
SameContent(d1, d2) ==
    /\ d1.objectKey = d2.objectKey
    /\ d1.bucket = d2.bucket
    /\ d1.createdTimestamp = d2.createdTimestamp
    /\ Range(d1.labels) = Range(d2.labels)

\* C1: when the lf1 handler runs a second time on the same notification, with
\* the same answers of head_object and detect_labels, and both writes are
\* accepted, the index holds exactly one document at the object's identifier
\* after the first run and after the second, with the same objectKey, bucket,
\* createdTimestamp and label set.
C1_IdempotentIngestion ==
    [][(last'.handler = "lf1" /\ repeated') =>
         LET id == last'.run.docId
         IN  /\ Cardinality(RecordsAt(index, id)) = 1
             /\ Cardinality(RecordsAt(index', id)) = 1
             /\ \A d1 \in DocsAt(index, id) : \A d2 \in DocsAt(index', id) :
                    SameContent(d1, d2) /\ SameContent(d2, last.run.doc)]_vars

\* a second accepted run on the same object, whose two labels may come in
\* either order
C1_Witness ==
    /\ repeated
    /\ last.handler = "lf1"
    /\ last.run.written
    /\ Len(last.run.doc.labels) = 2
    /\ last.put.status = 200

\* C2: a run of the lf1 handler whose head_object call fails, or answers
\* without LastModified, returns a status and calls the classifier, and when
\* the classifier and the index write succeed it writes the document and
\* returns 200.
C2_MetadataFailureNotFatal ==
    (/\ last.handler = "lf1"
     /\ last.head.kind \in {"raises", "ok"}
     /\ (last.head.kind = "raises" \/ ~last.head.hasLastModified))
    => /\ last.run.returned
       /\ last.run.rekCalls = 1
       /\ (last.rek.kind = "ok" /\ IndexAccepts(last.put)
             => last.run.written /\ last.run.statusCode = 200)

\* C3: a successful run of the lf1 handler on one key leaves in place every
\* document of another key: distinct keys never share an identifier.
C3_DistinctKeysKeepOwnDocument ==
    [][(last'.handler = "lf1" /\ last'.run.written) =>
         \A r \in index :
            r.doc.objectKey # last'.run.doc.objectKey => r \in index']_vars

\* the write to the search index failed in the run observed
WriteFailed(obs) ==
    \/ obs.put.kind = "raises"
    \/ obs.put.kind = "response" /\ ~IndexAccepts(obs.put)
    \/ obs.run.message = "Authentication error"

\* C4: a run of the lf1 handler that returns, returns 200, 400 or 500: 400
\* exactly for a malformed notification, 500 when the classifier or the index
\* write failed, 200 only when the index accepted the document.
C4_StatusCodes ==
    (last.handler = "lf1" /\ last.run.returned)
    => /\ last.run.statusCode \in {200, 400, 500}
       /\ (last.run.statusCode = 400) = ~last.event.wellFormed
       /\ (last.rek.kind = "raises" \/ WriteFailed(last) => last.run.statusCode = 500)
       /\ (last.run.statusCode = 200 => IndexAccepts(last.put))

\* C5: a run of either ingestion handler in which detect_labels fails issues
\* no write to the search index, leaves the index as it was and returns 500.
C5_ClassifierFailureFatal ==
    [][(last'.handler \in {"lf1", "index.py"} /\ last'.rek.kind = "raises") =>
         /\ index' = index
         /\ last'.run.writeCalls = 0
         /\ ~last'.run.written
         /\ last'.run.returned
         /\ last'.run.statusCode = 500]_vars

\* the classifier failed in a run on an index that holds documents
C5_Witness ==
    /\ last.rek.kind = "raises"
    /\ last.handler = "index.py"
    /\ index # {}
    /\ last.run.statusCode = 500

------------------------------------------------------------------------------
\* Properties of the search handlers, checked under SpecSearch.

\* the intent and the keyword slot each lf2 module expects
ExpectedIntent(h) == IF h = "backend/lf2" THEN "PhotoSearchIntent" ELSE "SearchIntent"
ExpectedSlot(h) == IF h = "backend/lf2" THEN "Keywords" ELSE "SearchTerm"

\* the string holds a character that is not whitespace
HasToken(str) == \E i \in 1..Len(str) : str[i] \notin Whitespace

\* the extractor answered, with the expected intent and a keyword slot whose
\* value holds at least one token
KeywordsRecognized(obs) ==
    /\ obs.lex.kind = "ok"
    /\ obs.lex.intent = ExpectedIntent(obs.handler)
    /\ obs.lex.slotName = ExpectedSlot(obs.handler)
    /\ obs.lex.slot = "value"
    /\ (HasToken(obs.lex.interpreted) \/ HasToken(obs.lex.original))

\* C6: an invocation of either lf2 handler contacts the search index only if
\* the extractor call succeeded, the intent is the expected one and the
\* keyword slot produced a token; in every other case it returns 200 with
\* body [] and makes no search call.
C6_SearchOnlyWithKeywords ==
    search.handler \in {"backend/lf2", "lf2"}
    => /\ (search.run.esCalls > 0 => search.event.qsp = "q" /\ KeywordsRecognized(search))
       /\ (~(search.event.qsp = "q" /\ KeywordsRecognized(search))
             => /\ search.run.returned
                /\ search.run.statusCode = 200
                /\ search.run.bodyKind = "list"
                /\ search.run.body = <<>>
                /\ search.run.esCalls = 0)

\* the extractor recognized another intent, with a filled keyword slot, and
\* the index was not contacted
C6_Witness ==
    /\ search.handler = "backend/lf2"
    /\ search.lex.kind = "ok"
    /\ search.lex.intent = "FallbackIntent"
    /\ search.lex.slotName = "Keywords"
    /\ search.lex.slot = "value"
    /\ HasToken(search.lex.interpreted)
    /\ search.run.esCalls = 0
    /\ search.run.body = <<>>

\* C7: a search request to index.py lambda_handler without q
\* (queryStringParameters empty, or null) gets 200 with an empty list, and
\* neither the extractor nor the index is queried.
C7_NoQueryNoResults ==
    (search.handler = "index.py" /\ search.event.qsp \in {"empty", "null"})
    => /\ search.run.statusCode = 200
       /\ search.run.bodyKind = "list"
       /\ search.run.body = <<>>
       /\ search.run.lexCalls = 0
       /\ search.run.esCalls = 0

\* the search call of the invocation failed: it raised, or the index answered
\* with a status that is no success
SearchFailed(obs) ==
    /\ obs.run.esCalls = 1
    /\ (obs.es.kind = "raises" \/ obs.es.status \notin 200..299)

\* C8: in backend/lf2_deployment, when the search call fails or is answered
\* with a non-success status, search_elasticsearch returns the empty sequence
\* and lambda_handler returns 200 with body [] and the cross-origin header.
C8_SearchFailureDegrades ==
    (search.handler = "backend/lf2" /\ SearchFailed(search))
    => /\ SearchElasticsearch(BackendKeywords(search.lex), search.es)
            = [raised |-> FALSE, keys |-> <<>>]
       /\ search.run.returned
       /\ search.run.statusCode = 200
       /\ search.run.bodyKind = "list"
       /\ search.run.body = <<>>
       /\ search.run.cors

\* the index answered 403 to the query of two keywords
C8_Witness ==
    /\ search.handler = "backend/lf2"
    /\ search.es.kind = "response"
    /\ search.es.status = 403
    /\ search.run.esCalls = 1
    /\ search.run.esQuery = <<"a", " ", "b">>

\* the hits whose container is the allow-list value, when one is configured
Allowed(hits, allow) == SelectSeq(hits, LAMBDA h : allow = "" \/ h.bucket = allow)

\* the locator of a hit
Locator(h) == ImgUrl(h.bucket, h.objectKey)

RECURSIVE FirstOccurrences(_, _)
\* the items of the hits from position i on whose locator no earlier hit has
FirstOccurrences(hits, i) ==
    IF i > Len(hits) THEN <<>>
    ELSE (IF \E j \in 1..(i - 1) : Locator(hits[j]) = Locator(hits[i])
          THEN <<>>
          ELSE << [url |-> Locator(hits[i]), labels |-> hits[i].labels] >>)
         \o FirstOccurrences(hits, i + 1)

\* C9: the body index.py handle_search returns for the hits of the index is
\* the hits filtered by the allow-list, then reduced to the first hit of each
\* locator, in the order of the index, each with the labels of that hit; no
\* locator is there twice and no hit of a container outside the allow-list.
C9_ResultAssembly ==
    (/\ search.handler = "index.py"
     /\ search.es.kind = "response"
     /\ search.es.hasHits
     /\ search.run.statusCode = 200)
    => LET body == search.run.body
       IN  /\ body = FirstOccurrences(Allowed(search.es.hits, target), 1)
           /\ \A i, j \in 1..Len(body) : body[i].url = body[j].url => i = j
           /\ \A i \in 1..Len(body) :
                \E k \in 1..Len(search.es.hits) :
                    /\ Locator(search.es.hits[k]) = body[i].url
                    /\ (target = "" \/ search.es.hits[k].bucket = target)

\* three hits: one outside the allow-list, and two of one locator that carry
\* different labels, of which the first is kept
C9_Witness ==
    /\ search.handler = "index.py"
    /\ target = "b1"
    /\ search.run.statusCode = 200
    /\ Len(search.es.hits) = 3
    /\ search.es.hits[1].bucket = "b2"
    /\ search.es.hits[2].bucket = "b1"
    /\ search.es.hits[3].bucket = "b1"
    /\ search.es.hits[2].labels # search.es.hits[3].labels
    /\ Len(search.run.body) = 1
    /\ search.run.body[1].labels = search.es.hits[2].labels

------------------------------------------------------------------------------
\* Property of the label merge, checked under SpecMerge.

\* the custom-label string split on commas, each part trimmed and lowercased,
\* the empty parts dropped
CandidateA(raw) == {Lower(Strip(part)) : part \in Range(Split(raw, ","))} \ {<<>>}

\* the classifier's label names, lowercased
CandidateB(names) == {Lower(names[i]) : i \in 1..Len(names)}

\* C10: the labels of the document the lf1 handler writes are the union of
\* the cleaned custom labels and the lowercased classifier names; the label
\* list holds no string twice and no empty string.
C10_LabelMergeIsUnion ==
    (last.handler = "lf1" /\ last.run.written)
    => LET labels == last.run.doc.labels
       IN  /\ Range(labels) = CandidateA(last.head.metaValue) \cup CandidateB(last.rek.names)
           /\ \A i, j \in 1..Len(labels) : labels[i] = labels[j] => i = j
           /\ \A i \in 1..Len(labels) : labels[i] # <<>>
           /\ \A d \in DocsAt(index, last.run.docId) : d.labels = labels

\* custom labels " B," and classifier labels b, A: two labels are written
C10_Witness ==
    /\ last.handler = "lf1"
    /\ last.run.written
    /\ last.head.metaValue = <<" ", "B", ",">>
    /\ last.rek.names = << <<"b">>, <<"A">> >>
    /\ Len(last.run.doc.labels) = 2

------------------------------------------------------------------------------
\* Several objects written through the lf1 handler: keys that share an
\* identifier, a key with an identifier of its own, both containers.

\* the keys of RawKeys, which all get the identifier f_t, and the key g
WriterKeys == RawKeys \cup {<<"g">>}

WriterEvents == {S3Event(b, k) : b \in Buckets, k \in WriterKeys} \cup {EmptyRecordsEvent}

\* head_object raises, or answers with LastModified and no custom labels
WriterHeads(event) ==
    {h \in LF1Heads(event) : h.kind = "ok" => (h.metaKey = "" /\ h.hasLastModified)}

InitWriters == Init

IngestWriters ==
    \E event \in WriterEvents :
      \E head \in WriterHeads(event) :
        \E rek \in LF1Reks(event, head) :
          \E put \in LF1Puts(event, head, rek) :
            \E clock \in LF1Clocks :
              \E order \in LF1Orders(event, head, rek, clock) :
                LF1LambdaHandler(event, head, rek, put, order, clock)

NextWriters == IngestWriters

SpecWriters == InitWriters /\ [][NextWriters]_vars

\* the run observed returned 200
Succeeded(obs) == obs.run.returned /\ obs.run.statusCode = 200

\* the identifiers the index holds
StoredIds(idx) == {r.id : r \in idx}

C11_WitnessFailedRun ==
    /\ last.handler = "lf1"
    /\ ~Succeeded(last)
    /\ last.event.wellFormed
    /\ last.event.bucket = "b2"
    /\ \E d \in DocsAt(index, DocumentId(UnquotePlus(last.event.key))) : d.bucket = "b1"

====
